---- MODULE Spec2Model ----
(***************************************************************************)
(* examples/basic_usage.py of django-concurrent-test as a state machine.   *)
(*                                                                         *)
(* The file is executed statement by statement when it is loaded: once as  *)
(* the first load (as the script "__main__", or imported under the name    *)
(* "examples.basic_usage"), and once more when the runner loads the test   *)
(* target "examples.basic_usage" while the script is running.  The         *)
(* function run_concurrent_tests is a frame on a call stack; the runner    *)
(* it calls executes the two test methods of ExampleTestCase on workers.   *)
(***************************************************************************)
EXTENDS Integers, Sequences, FiniteSets, TLC

(* ------------------------------ bounds -------------------------------- *)
\* workers the runner executes test methods on
MaxWorkers == 2
\* test-method executions one run_tests call starts
MaxTests == 3
\* calls of run_concurrent_tests() an importing program makes
MaxCalls == 2
\* largest failure count run_tests returns
MaxFailures == 2

Workers == 1..MaxWorkers

(* ------------------------- values of the source ----------------------- *)
MainName == "__main__"
TargetLabel == "examples.basic_usage"
RunnerModule == "django_concurrent_test.runner"

EnableConcurrentKey == "DJANGO_ENABLE_CONCURRENT"
EnableConcurrentValue == "True"
NoTelemetryKey == "NO_TELEMETRY"
NoTelemetryValue == "1"
EnvKeys == {EnableConcurrentKey, NoTelemetryKey}

RunnerOptions == [benchmark |-> TRUE, junitxml |-> "test-results.xml"]
TestLabels == <<TargetLabel>>

TestUsername == "testuser"
\* the address passed with its domain in another case
TestEmail_mixedCase == "test@EXAMPLE.com"
TestEmail == "test@example.com"
ExpectedUsername == "testuser"
ExpectedEmail == "test@example.com"
\* the lookup made by another username
LookupUsername_other == "other"
LookupUsername == "testuser"

TestMethods == {"test_basic_functionality", "test_database_operation"}

\* the first statement of each test method
FirstLine(t) == IF t = "test_basic_functionality" THEN "L45" ELSE "L53"

(* ------------------------------ the ORM ------------------------------- *)
\* UserManager.normalize_email lower-cases the domain part of an address.
NormalizeEmail(e) == IF e = "test@EXAMPLE.com" THEN "test@example.com" ELSE e

HasUser(d, name) == \E r \in d.rows : r.username = name

\* the row create_user inserts: the next value of the id sequence
NewRow(d, name, email) ==
    [id |-> d.seq + 1, username |-> name, email |-> NormalizeEmail(email)]

create_user(d, name, email) ==
    [rows |-> d.rows \cup {NewRow(d, name, email)}, seq |-> d.seq + 1]

\* the rows objects.get(username=name) selects
get(d, name) == {r \in d.rows : r.username = name}

\* the databases a test execution can find when it starts
SeedNames == {"empty", "other", "taken"}
Seed(s) ==
    CASE s = "empty" -> [rows |-> {}, seq |-> 0]
      [] s = "other" -> [rows |-> {[id |-> 1, username |-> "other",
                                    email |-> "other@example.com"]}, seq |-> 1]
      [] OTHER -> [rows |-> {[id |-> 1, username |-> "testuser",
                              email |-> "old@example.com"]}, seq |-> 1]

(* ------------------------------- state -------------------------------- *)
VARIABLES
    mode,            \* "script": python basic_usage.py; "import": imported
    settings,        \* "unconfigured", "example" (lines 12-30) or "external"
    setupDone,       \* django.setup() has populated the app registry
    configureCalls,  \* calls of settings.configure made by this file
    setupCalls,      \* calls of django.setup made by this file
    environ,         \* os.environ on the two keys
    sysModules,      \* sys.modules: names of the modules loaded or loading
    lname,           \* lname[i]: __name__ of load i of the file (1 first, 2 by the runner)
    lpc,             \* lpc[i]: the statement load i is at
    ns,              \* ns[i]: names the module body of load i has defined
    stack,           \* frames of run_concurrent_tests, innermost last
    callNo,          \* calls of run_concurrent_tests started
    runTestsCalls,   \* calls of run_tests made in this process
    runner,          \* the runner constructed last: <<>> or <<record>>
    dbs,             \* dbs[0]: the shared database; dbs[w]: worker w's own
    started,         \* test-method executions the current run_tests started
    wpc, wtest, wuser, wfrom, wout, worm, wclean

wvars == <<wpc, wtest, wuser, wfrom, wout, worm, wclean>>
cfgvars == <<settings, setupDone, configureCalls, setupCalls>>
loadvars == <<lname, lpc, ns>>
vars == <<mode, settings, setupDone, configureCalls, setupCalls, environ,
          sysModules, lname, lpc, ns, stack, callNo, runTestsCalls, runner,
          dbs, started, wpc, wtest, wuser, wfrom, wout, worm, wclean>>

Loads == {1, 2}
BodyLines == {"L11", "L34", "L35", "L37", "L40", "L68", "L85"}

NewFrame(by) ==
    [pc |-> "L70", caller |-> by, banner |-> FALSE, ctor |-> 0, ctorArgs |-> <<>>,
     runs |-> 0, runArgs |-> <<>>, result |-> <<>>, printed |-> <<>>,
     retval |-> <<>>, rphase |-> "none"]

Top == stack[Len(stack)]
HasTop == Len(stack) > 0
TopIs(p) == HasTop /\ Top.pc = p
SetTop(f) == stack' = [stack EXCEPT ![Len(stack)] = f]

\* the load whose statements the interpreter is executing
Active(i) ==
    /\ lpc[i] \in BodyLines
    /\ i = 1 => lpc[2] \notin BodyLines

IdleWorkers ==
    /\ wpc = [w \in Workers |-> "idle"]
    /\ wtest = [w \in Workers |-> "none"]
    /\ wuser = [w \in Workers |-> <<>>]
    /\ wfrom = [w \in Workers |-> <<>>]
    /\ wout = [w \in Workers |-> "none"]
    /\ worm = [w \in Workers |-> 0]
    /\ wclean = [w \in Workers |-> FALSE]

Init ==
    /\ mode \in {"script", "import"}
    /\ IF mode = "script"
          THEN settings = "unconfigured" /\ setupDone = FALSE
          ELSE /\ settings \in {"unconfigured", "external"}
               /\ setupDone \in BOOLEAN
               /\ settings = "unconfigured" => setupDone = FALSE
    /\ configureCalls = 0
    /\ setupCalls = 0
    /\ environ \in [EnvKeys -> {"unset", "0"}]
    /\ sysModules = {IF mode = "script" THEN MainName ELSE TargetLabel}
    /\ lname = [i \in Loads |-> IF i = 1 THEN (IF mode = "script" THEN MainName ELSE TargetLabel)
                                        ELSE "none"]
    /\ lpc = [i \in Loads |-> IF i = 1 THEN "L11" ELSE "idle"]
    /\ ns = [i \in Loads |-> {}]
    /\ stack = <<>>
    /\ callNo = 0
    /\ runTestsCalls = 0
    /\ runner = <<>>
    /\ dbs = [d \in 0..MaxWorkers |-> Seed("empty")]
    /\ started = 0
    /\ IdleWorkers

(* --------------------------- the module body -------------------------- *)
\* lines 11-31 with the condition inverted: if settings.configured
ConfigureSettings_inverted(i) ==
    /\ Active(i) /\ lpc[i] = "L11"
    /\ IF settings # "unconfigured"
          THEN /\ settings' = "example"
               /\ configureCalls' = configureCalls + 1
               /\ setupDone' = TRUE
               /\ setupCalls' = setupCalls + 1
          ELSE UNCHANGED cfgvars
    /\ lpc' = [lpc EXCEPT ![i] = "L34"]
    /\ UNCHANGED <<mode, environ, sysModules, lname, ns, stack, callNo,
                   runTestsCalls, runner, dbs, started, wvars>>

\* lines 11-31 without the condition: configure and set up on every load
ConfigureSettings_always(i) ==
    /\ Active(i) /\ lpc[i] = "L11"
    /\ settings' = "example"
    /\ configureCalls' = configureCalls + 1
    /\ setupDone' = TRUE
    /\ setupCalls' = setupCalls + 1
    /\ lpc' = [lpc EXCEPT ![i] = "L34"]
    /\ UNCHANGED <<mode, environ, sysModules, lname, ns, stack, callNo,
                   runTestsCalls, runner, dbs, started, wvars>>

\* lines 11-31: if not settings.configured: settings.configure(...); django.setup()
ConfigureSettings(i) ==
    /\ Active(i) /\ lpc[i] = "L11"
    /\ IF settings = "unconfigured"
          THEN /\ settings' = "example"
               /\ configureCalls' = configureCalls + 1
               /\ setupDone' = TRUE
               /\ setupCalls' = setupCalls + 1
          ELSE UNCHANGED cfgvars
    /\ lpc' = [lpc EXCEPT ![i] = "L34"]
    /\ UNCHANGED <<mode, environ, sysModules, lname, ns, stack, callNo,
                   runTestsCalls, runner, dbs, started, wvars>>

\* line 34: os.environ['DJANGO_ENABLE_CONCURRENT'] = 'True'
SetEnableConcurrent(i) ==
    /\ Active(i) /\ lpc[i] = "L34"
    /\ environ' = [environ EXCEPT ![EnableConcurrentKey] = EnableConcurrentValue]
    /\ lpc' = [lpc EXCEPT ![i] = "L35"]
    /\ UNCHANGED <<mode, cfgvars, sysModules, lname, ns, stack, callNo,
                   runTestsCalls, runner, dbs, started, wvars>>

\* line 35 left out: NO_TELEMETRY keeps the value the process started with
SetNoTelemetry_missing(i) ==
    /\ Active(i) /\ lpc[i] = "L35"
    /\ lpc' = [lpc EXCEPT ![i] = "L37"]
    /\ UNCHANGED <<mode, cfgvars, environ, sysModules, lname, ns, stack, callNo,
                   runTestsCalls, runner, dbs, started, wvars>>

\* line 35: os.environ['NO_TELEMETRY'] = '1'
SetNoTelemetry(i) ==
    /\ Active(i) /\ lpc[i] = "L35"
    /\ environ' = [environ EXCEPT ![NoTelemetryKey] = NoTelemetryValue]
    /\ lpc' = [lpc EXCEPT ![i] = "L37"]
    /\ UNCHANGED <<mode, cfgvars, sysModules, lname, ns, stack, callNo,
                   runTestsCalls, runner, dbs, started, wvars>>

\* line 37: from django_concurrent_test.runner import ConcurrentTestRunner
ImportRunner(i) ==
    /\ Active(i) /\ lpc[i] = "L37"
    /\ sysModules' = sysModules \cup {RunnerModule}
    /\ ns' = [ns EXCEPT ![i] = @ \cup {"ConcurrentTestRunner"}]
    /\ lpc' = [lpc EXCEPT ![i] = "L40"]
    /\ UNCHANGED <<mode, cfgvars, environ, lname, stack, callNo,
                   runTestsCalls, runner, dbs, started, wvars>>

\* lines 40-65: class ExampleTestCase(TestCase)
DefineExampleTestCase(i) ==
    /\ Active(i) /\ lpc[i] = "L40"
    /\ ns' = [ns EXCEPT ![i] = @ \cup {"ExampleTestCase"}]
    /\ lpc' = [lpc EXCEPT ![i] = "L68"]
    /\ UNCHANGED <<mode, cfgvars, environ, sysModules, lname, stack, callNo,
                   runTestsCalls, runner, dbs, started, wvars>>

\* lines 68-82: def run_concurrent_tests()
DefineRunConcurrentTests(i) ==
    /\ Active(i) /\ lpc[i] = "L68"
    /\ ns' = [ns EXCEPT ![i] = @ \cup {"run_concurrent_tests"}]
    /\ lpc' = [lpc EXCEPT ![i] = "L85"]
    /\ UNCHANGED <<mode, cfgvars, environ, sysModules, lname, stack, callNo,
                   runTestsCalls, runner, dbs, started, wvars>>

\* line 85 without the guard: every load calls run_concurrent_tests()
IsMain_always(i) == TRUE

\* line 85: if __name__ == '__main__'
IsMain(i) == lname[i] = MainName

\* lines 85-86: if __name__ == '__main__': run_concurrent_tests()
MainGuard(i) ==
    /\ Active(i) /\ lpc[i] = "L85"
    /\ IF IsMain(i)
          THEN /\ stack' = Append(stack, NewFrame(i))
               /\ callNo' = callNo + 1
               /\ lpc' = [lpc EXCEPT ![i] = "in_call"]
          ELSE /\ lpc' = [lpc EXCEPT ![i] = "loaded"]
               /\ UNCHANGED <<stack, callNo>>
    /\ UNCHANGED <<mode, cfgvars, environ, sysModules, lname, ns,
                   runTestsCalls, runner, dbs, started, wvars>>

\* line 86 returns or raises: the module body of the load that called ends.
\* The first load is the process: it exits, or dies of the uncaught error.
\* An error in the runner's load of the target reaches its run_tests call.
AfterMainCall(i) ==
    /\ lpc[i] = "in_call"
    /\ HasTop /\ Top.caller = i /\ Top.pc \in {"returned", "raised"}
    /\ IF i = 1
          THEN /\ lpc' = [lpc EXCEPT ![i] = IF Top.pc = "returned" THEN "exit" ELSE "crashed"]
               /\ UNCHANGED stack
          ELSE /\ lpc' = [lpc EXCEPT ![i] = IF Top.pc = "returned" THEN "loaded" ELSE "failed"]
               /\ stack' = SubSeq(stack, 1, Len(stack) - 1)
    /\ UNCHANGED <<mode, cfgvars, environ, sysModules, lname, ns, callNo,
                   runTestsCalls, runner, dbs, started, wvars>>

\* a program that imported the file calls run_concurrent_tests()
ImporterCalls ==
    /\ mode = "import" /\ lpc[1] = "loaded"
    /\ "run_concurrent_tests" \in ns[1]
    /\ HasTop => Top.pc \in {"returned", "raised"}
    /\ callNo < MaxCalls
    /\ stack' = <<NewFrame(0)>>
    /\ callNo' = callNo + 1
    /\ UNCHANGED <<mode, cfgvars, environ, sysModules, loadvars,
                   runTestsCalls, runner, dbs, started, wvars>>

(* ------------------------ run_concurrent_tests ------------------------ *)
\* line 70: print("Running tests with ConcurrentTestRunner...")
PrintBanner ==
    /\ TopIs("L70")
    /\ SetTop([Top EXCEPT !.banner = TRUE, !.pc = "L73"])
    /\ UNCHANGED <<mode, cfgvars, environ, sysModules, loadvars, callNo,
                   runTestsCalls, runner, dbs, started, wvars>>

\* lines 73-76: runner = ConcurrentTestRunner(benchmark=True, junitxml='test-results.xml')
\* How the runner isolates the tests' databases, and what they hold when a
\* test starts, is the runner's own business: any of the possibilities.
ConstructRunner ==
    /\ TopIs("L73")
    /\ \E iso \in BOOLEAN, s \in SeedNames :
          runner' = <<[options |-> RunnerOptions, isolated |-> iso, seed |-> s]>>
    /\ SetTop([Top EXCEPT !.ctor = @ + 1, !.ctorArgs = <<RunnerOptions>>, !.pc = "L79"])
    /\ UNCHANGED <<mode, cfgvars, environ, sysModules, loadvars, callNo,
                   runTestsCalls, dbs, started, wvars>>

\* lines 73-76, the constructor raises: the frame is left by the exception
ConstructRunnerRaises ==
    /\ TopIs("L73")
    /\ SetTop([Top EXCEPT !.ctor = @ + 1, !.ctorArgs = <<RunnerOptions>>, !.pc = "raised"])
    /\ UNCHANGED <<mode, cfgvars, environ, sysModules, loadvars, callNo,
                   runTestsCalls, runner, dbs, started, wvars>>

\* line 79: failures = runner.run_tests(['examples.basic_usage']), the call
CallRunTests ==
    /\ TopIs("L79")
    /\ SetTop([Top EXCEPT !.runs = @ + 1, !.runArgs = TestLabels,
                          !.pc = "in_run_tests", !.rphase = "load"])
    /\ runTestsCalls' = runTestsCalls + 1
    /\ dbs' = [d \in 0..MaxWorkers |-> Seed(runner[1].seed)]
    /\ started' = 0
    /\ wpc' = [w \in Workers |-> "idle"]
    /\ wtest' = [w \in Workers |-> "none"]
    /\ wuser' = [w \in Workers |-> <<>>]
    /\ wfrom' = [w \in Workers |-> <<>>]
    /\ wout' = [w \in Workers |-> "none"]
    /\ worm' = [w \in Workers |-> 0]
    /\ wclean' = [w \in Workers |-> FALSE]
    /\ UNCHANGED <<mode, cfgvars, environ, sysModules, loadvars, callNo, runner>>

\* line 81: print(f"Tests completed with {failures} failures")
PrintCompleted ==
    /\ TopIs("L81")
    /\ SetTop([Top EXCEPT !.printed = Top.result, !.pc = "L82"])
    /\ UNCHANGED <<mode, cfgvars, environ, sysModules, loadvars, callNo,
                   runTestsCalls, runner, dbs, started, wvars>>

\* line 82 returning a constant: return 0
ReturnFailures_zero ==
    /\ TopIs("L82")
    /\ SetTop([Top EXCEPT !.retval = <<0>>, !.pc = "returned"])
    /\ UNCHANGED <<mode, cfgvars, environ, sysModules, loadvars, callNo,
                   runTestsCalls, runner, dbs, started, wvars>>

\* line 82 with a retry: a non-zero count sends the function back to line 79
ReturnFailures_retry ==
    /\ TopIs("L82")
    /\ IF Top.result[1] > 0 /\ Top.runs < 2
          THEN SetTop([Top EXCEPT !.pc = "L79"])
          ELSE SetTop([Top EXCEPT !.retval = Top.result, !.pc = "returned"])
    /\ UNCHANGED <<mode, cfgvars, environ, sysModules, loadvars, callNo,
                   runTestsCalls, runner, dbs, started, wvars>>

\* line 82: return failures
ReturnFailures ==
    /\ TopIs("L82")
    /\ SetTop([Top EXCEPT !.retval = Top.result, !.pc = "returned"])
    /\ UNCHANGED <<mode, cfgvars, environ, sysModules, loadvars, callNo,
                   runTestsCalls, runner, dbs, started, wvars>>

(* ----------------------------- the runner ----------------------------- *)
InRunTests(ph) == TopIs("in_run_tests") /\ Top.rphase = ph

\* run_tests loads each label: a module already in sys.modules is not run
\* again, any other is registered and its body executed.
RunnerLoadsTarget ==
    /\ InRunTests("load")
    /\ IF Top.runArgs[1] \in sysModules
          THEN /\ SetTop([Top EXCEPT !.rphase = "run"])
               /\ UNCHANGED <<sysModules, loadvars>>
          ELSE /\ SetTop([Top EXCEPT !.rphase = "loading"])
               /\ sysModules' = sysModules \cup {Top.runArgs[1]}
               /\ lname' = [lname EXCEPT ![2] = Top.runArgs[1]]
               /\ lpc' = [lpc EXCEPT ![2] = "L11"]
               /\ ns' = [ns EXCEPT ![2] = {}]
    /\ UNCHANGED <<mode, cfgvars, environ, callNo, runTestsCalls, runner,
                   dbs, started, wvars>>

\* the body of the target has been executed: the runner goes on to the tests
RunnerTargetLoaded ==
    /\ InRunTests("loading")
    /\ lpc[2] \in {"loaded", "failed"}
    /\ IF lpc[2] = "loaded"
          THEN SetTop([Top EXCEPT !.rphase = "run"])
          ELSE SetTop([Top EXCEPT !.pc = "raised"])
    /\ UNCHANGED <<mode, cfgvars, environ, sysModules, loadvars, callNo,
                   runTestsCalls, runner, dbs, started, wvars>>

\* run_tests returns an integer failure count once no test is running; the
\* test databases are destroyed
RunTestsReturns ==
    /\ InRunTests("run")
    /\ \A w \in Workers : wpc[w] = "idle"
    /\ \E n \in 0..MaxFailures :
          SetTop([Top EXCEPT !.result = <<n>>, !.pc = "L81", !.rphase = "done"])
    /\ dbs' = [d \in 0..MaxWorkers |-> Seed("empty")]
    /\ started' = 0
    /\ UNCHANGED <<mode, cfgvars, environ, sysModules, loadvars, callNo,
                   runTestsCalls, runner, wvars>>

\* run_tests raises: the frame of run_concurrent_tests is left by the exception
RunTestsRaises ==
    /\ InRunTests("run")
    /\ \A w \in Workers : wpc[w] = "idle"
    /\ SetTop([Top EXCEPT !.pc = "raised", !.rphase = "done"])
    /\ dbs' = [d \in 0..MaxWorkers |-> Seed("empty")]
    /\ started' = 0
    /\ UNCHANGED <<mode, cfgvars, environ, sysModules, loadvars, callNo,
                   runTestsCalls, runner, wvars>>

(* ------------------------- the test methods --------------------------- *)
\* the database the runner gives worker w: its own, or the one all share
DbOf(w) == IF runner[1].isolated THEN w ELSE 0

assertTrue(x) == x = TRUE
assertEqual(a, b) == a = b

\* the module the runner takes ExampleTestCase from
TargetNs == IF lname[2] = TargetLabel THEN ns[2] ELSE ns[1]

\* the runner starts test method t of ExampleTestCase on idle worker w
StartTest(w, t) ==
    /\ InRunTests("run")
    /\ "ExampleTestCase" \in TargetNs
    /\ wpc[w] = "idle"
    /\ started < MaxTests
    /\ started' = started + 1
    /\ wpc' = [wpc EXCEPT ![w] = FirstLine(t)]
    /\ wtest' = [wtest EXCEPT ![w] = t]
    /\ wclean' = [wclean EXCEPT ![w] = ~HasUser(dbs[DbOf(w)], TestUsername)]
    /\ UNCHANGED <<mode, cfgvars, environ, sysModules, loadvars, stack, callNo,
                   runTestsCalls, runner, dbs, wuser, wfrom, wout, worm>>

\* lines 45-46 with a query added: the method reads the user table
test_basic_functionality_orm(w) ==
    /\ wpc[w] = "L45"
    /\ worm' = [worm EXCEPT ![w] = @ + 1]
    /\ wout' = [wout EXCEPT ![w] =
                  IF assertTrue(TRUE) /\ assertEqual(1 + 1, 2) THEN "ok" ELSE "failure"]
    /\ wpc' = [wpc EXCEPT ![w] = "end"]
    /\ UNCHANGED <<mode, cfgvars, environ, sysModules, loadvars, stack, callNo,
                   runTestsCalls, runner, dbs, started, wtest, wuser, wfrom, wclean>>

\* lines 45-46: self.assertTrue(True); self.assertEqual(1 + 1, 2)
test_basic_functionality(w) ==
    /\ wpc[w] = "L45"
    /\ wout' = [wout EXCEPT ![w] =
                  IF assertTrue(TRUE) /\ assertEqual(1 + 1, 2) THEN "ok" ELSE "failure"]
    /\ wpc' = [wpc EXCEPT ![w] = "end"]
    /\ UNCHANGED <<mode, cfgvars, environ, sysModules, loadvars, stack, callNo,
                   runTestsCalls, runner, dbs, started, wtest, wuser, wfrom, worm, wclean>>

\* lines 53-61: user = User.objects.create_user(...), then the two
\* assertions on user.username and user.email.  A username already in the
\* table violates its unique constraint: create_user raises IntegrityError.
test_database_operation_create(w) ==
    /\ wpc[w] = "L53"
    /\ worm' = [worm EXCEPT ![w] = @ + 1]
    /\ LET d == dbs[DbOf(w)]
           user == NewRow(d, TestUsername, TestEmail)
       IN IF HasUser(d, TestUsername)
             THEN /\ wout' = [wout EXCEPT ![w] = "error"]
                  /\ wpc' = [wpc EXCEPT ![w] = "end"]
                  /\ UNCHANGED <<dbs, wuser>>
             ELSE /\ dbs' = [dbs EXCEPT ![DbOf(w)] = create_user(d, TestUsername, TestEmail)]
                  /\ wuser' = [wuser EXCEPT ![w] = <<user>>]
                  /\ IF /\ assertEqual(user.username, ExpectedUsername)
                        /\ assertEqual(user.email, ExpectedEmail)
                        THEN /\ wpc' = [wpc EXCEPT ![w] = "L64"]
                             /\ UNCHANGED wout
                        ELSE /\ wpc' = [wpc EXCEPT ![w] = "end"]
                             /\ wout' = [wout EXCEPT ![w] = "failure"]
    /\ UNCHANGED <<mode, cfgvars, environ, sysModules, loadvars, stack, callNo,
                   runTestsCalls, runner, started, wtest, wfrom, wclean>>

\* lines 64-65: user_from_db = User.objects.get(username='testuser'), then
\* the assertion on the ids.  get raises DoesNotExist when no row matches
\* and MultipleObjectsReturned when more than one does.
test_database_operation_get(w) ==
    /\ wpc[w] = "L64"
    /\ worm' = [worm EXCEPT ![w] = @ + 1]
    /\ LET found == get(dbs[DbOf(w)], LookupUsername)
       IN IF Cardinality(found) # 1
             THEN /\ wout' = [wout EXCEPT ![w] = "error"]
                  /\ UNCHANGED wfrom
             ELSE LET user_from_db == CHOOSE r \in found : TRUE
                  IN /\ wfrom' = [wfrom EXCEPT ![w] = <<user_from_db>>]
                     /\ wout' = [wout EXCEPT ![w] =
                                   IF assertEqual(user_from_db.id, wuser[w][1].id)
                                      THEN "ok" ELSE "failure"]
    /\ wpc' = [wpc EXCEPT ![w] = "end"]
    /\ UNCHANGED <<mode, cfgvars, environ, sysModules, loadvars, stack, callNo,
                   runTestsCalls, runner, dbs, started, wtest, wuser, wclean>>

\* line 40, class ExampleTestCase(TestCase): a TestCase runs each test
\* method in a transaction it rolls back when the method ends, so the rows
\* the method inserted are gone; the id sequence is not rolled back.
Rollback(d, mine) == [d EXCEPT !.rows = {r \in @ : r \notin mine}]

TearDown(w) ==
    /\ wpc[w] = "end"
    /\ dbs' = [dbs EXCEPT ![DbOf(w)] = Rollback(@, {wuser[w][k] : k \in 1..Len(wuser[w])})]
    /\ wpc' = [wpc EXCEPT ![w] = "idle"]
    /\ wtest' = [wtest EXCEPT ![w] = "none"]
    /\ wuser' = [wuser EXCEPT ![w] = <<>>]
    /\ wfrom' = [wfrom EXCEPT ![w] = <<>>]
    /\ wout' = [wout EXCEPT ![w] = "none"]
    /\ worm' = [worm EXCEPT ![w] = 0]
    /\ wclean' = [wclean EXCEPT ![w] = FALSE]
    /\ UNCHANGED <<mode, cfgvars, environ, sysModules, loadvars, stack, callNo,
                   runTestsCalls, runner, started>>

(* --------------------------- specifications --------------------------- *)
Next ==
    \/ \E i \in Loads : ConfigureSettings(i)
    \/ \E i \in Loads : SetEnableConcurrent(i)
    \/ \E i \in Loads : SetNoTelemetry(i)
    \/ \E i \in Loads : ImportRunner(i)
    \/ \E i \in Loads : DefineExampleTestCase(i)
    \/ \E i \in Loads : DefineRunConcurrentTests(i)
    \/ \E i \in Loads : MainGuard(i)
    \/ \E i \in Loads : AfterMainCall(i)
    \/ ImporterCalls
    \/ PrintBanner
    \/ ConstructRunner
    \/ ConstructRunnerRaises
    \/ CallRunTests
    \/ PrintCompleted
    \/ ReturnFailures
    \/ RunnerLoadsTarget
    \/ RunnerTargetLoaded
    \/ RunTestsReturns
    \/ RunTestsRaises
    \/ \E w \in Workers, t \in TestMethods : StartTest(w, t)
    \/ \E w \in Workers : test_basic_functionality(w)
    \/ \E w \in Workers : test_database_operation_create(w)
    \/ \E w \in Workers : test_database_operation_get(w)
    \/ \E w \in Workers : TearDown(w)

Spec == Init /\ [][Next]_vars

\* the interpreter and the runner's workers keep taking steps
FairSpec == Spec /\ WF_vars(Next)

(* ------------------------------- claims ------------------------------- *)
Frames == {stack[k] : k \in 1..Len(stack)}
Configured == settings # "unconfigured"
DbTest(w) == wtest[w] = "test_database_operation"
BasicTest(w) == wtest[w] = "test_basic_functionality"

\* C1: a call of run_concurrent_tests() constructs at most one runner, with
\* benchmark=True and junitxml='test-results.xml', and calls run_tests at
\* most once, with ['examples.basic_usage']; a call that has returned has
\* done each exactly once, and the value it returned and the value it
\* printed are the failure count run_tests returned.
C1_RunContract ==
    \A f \in Frames :
        /\ f.ctor <= 1 /\ f.runs <= 1
        /\ f.ctor = 1 => f.ctorArgs = <<[benchmark |-> TRUE, junitxml |-> "test-results.xml"]>>
        /\ f.runs = 1 => f.ctor = 1 /\ f.runArgs = <<"examples.basic_usage">>
        /\ f.pc = "returned" =>
              /\ f.ctor = 1 /\ f.runs = 1
              /\ Len(f.result) = 1
              /\ f.printed = f.result
              /\ f.retval = f.result

\* a call has returned a non-zero failure count
C1_Witness ==
    \E f \in Frames : f.pc = "returned" /\ f.retval # <<>> /\ f.retval[1] > 0

\* C2: in an execution of test_database_operation that started with no user
\* named 'testuser', the record create_user returned has the username and
\* the email that were passed, and the record the following get returned
\* has the id of the created record.
C2_CreateThenGet ==
    \A w \in Workers :
        DbTest(w) /\ wclean[w] =>
            /\ wuser[w] # <<>> =>
                  /\ wuser[w][1].username = TestUsername
                  /\ wuser[w][1].email = TestEmail
            /\ wfrom[w] # <<>> =>
                  /\ wuser[w] # <<>>
                  /\ wfrom[w][1].id = wuser[w][1].id

\* an execution that started without 'testuser' has created and fetched
C2_Witness ==
    \E w \in Workers :
        DbTest(w) /\ wclean[w] /\ wpc[w] = "end" /\ wuser[w] # <<>> /\ wfrom[w] # <<>>

\* C3: once the runner module has been imported, and so whenever a runner
\* is constructed or run_tests is called, DJANGO_ENABLE_CONCURRENT is 'True'
\* and NO_TELEMETRY is '1', whatever the settings were at load time.
C3_EnvironAtStartup ==
    (RunnerModule \in sysModules \/ Frames # {}) =>
        /\ environ["DJANGO_ENABLE_CONCURRENT"] = "True"
        /\ environ["NO_TELEMETRY"] = "1"

\* run_tests is running in a process whose settings were configured before
\* the file was loaded
C3_Witness ==
    /\ settings = "external"
    /\ \E f \in Frames : f.pc = "in_run_tests" /\ f.ctor = 1

\* C4: in a script run the settings are configured and the framework set up
\* before a runner is constructed, the runner is constructed before
\* run_tests is called, and the completion line is printed only after
\* run_tests has returned; in no run is run_tests called with unconfigured
\* settings.
C4_ScriptOrder ==
    \A f \in Frames :
        /\ f.runs > 0 => Configured
        /\ mode = "script" =>
              /\ Configured /\ setupDone /\ configureCalls = 1 /\ setupCalls = 1
              /\ f.pc \in {"L79", "in_run_tests", "L81", "L82", "returned"} => f.ctor = 1
              /\ f.runs > 0 => f.ctor = 1
              /\ f.pc \in {"L81", "L82", "returned"} => f.runs = 1 /\ f.result # <<>>
              /\ f.printed # <<>> => f.result # <<>> /\ f.pc \in {"L82", "returned"}
              /\ f.pc \in {"L70", "L73", "L79", "in_run_tests"} => f.printed = <<>>

\* a script run has printed the completion line
C4_Witness ==
    /\ mode = "script"
    /\ \E f \in Frames : f.printed # <<>> /\ f.pc = "returned"

\* C5: run_concurrent_tests() calls run_tests at most once whatever count
\* comes back, and when the constructor or run_tests raises the call ends
\* with no completion line printed and no value returned; the script that
\* made the call dies of the error.
C5_NoRetryNoRecovery ==
    /\ \A f \in Frames :
          /\ f.runs <= 1
          /\ f.result # <<>> => f.runs = 1
          /\ f.pc = "raised" => f.printed = <<>> /\ f.retval = <<>> /\ f.result = <<>>
    /\ lpc[1] = "crashed" => Top.pc = "raised"
    /\ lpc[1] = "exit" => Top.pc = "returned"

\* run_tests raised and the script died of it
C5_Witness ==
    /\ lpc[1] = "crashed"
    /\ Top.pc = "raised" /\ Top.runs = 1

\* C6 as stated: each of the two test methods calls into the ORM.
C6_EachTestCallsOrm ==
    \A w \in Workers : wpc[w] = "end" => worm[w] >= 1

\* C6: test_database_operation calls into the ORM (create_user, and get once
\* create_user has succeeded); test_basic_functionality makes no ORM call.
C6_OnlyDatabaseTestCallsOrm ==
    \A w \in Workers :
        /\ BasicTest(w) => worm[w] = 0
        /\ DbTest(w) /\ wpc[w] \in {"L64", "end"} => worm[w] >= 1
        /\ DbTest(w) /\ wout[w] = "ok" => worm[w] = 2

\* both methods have finished, one on each of two workers
C6_Witness ==
    \E v, w \in Workers :
        /\ BasicTest(v) /\ wpc[v] = "end" /\ wout[v] = "ok"
        /\ DbTest(w) /\ wpc[w] = "end" /\ wout[w] = "ok"

\* C7: the file calls settings.configure and django.setup at most once each
\* and only in a state where the settings are not configured; once the
\* settings are configured no load of the file changes them or makes
\* either call.
C7_ConfigureStep ==
    /\ Configured => UNCHANGED cfgvars
    /\ (configureCalls' # configureCalls \/ setupCalls' # setupCalls) => ~Configured

C7_ConfigureOnce ==
    /\ [](/\ configureCalls <= 1 /\ setupCalls <= 1
          /\ settings = "external" => configureCalls = 0 /\ setupCalls = 0)
    /\ [][C7_ConfigureStep]_vars

\* the file has been loaded a second time, as examples.basic_usage, after
\* the script configured the settings
C7_Witness ==
    /\ lname[1] = MainName /\ lname[2] = TargetLabel
    /\ lpc[2] \notin {"idle", "L11"}
    /\ configureCalls = 1 /\ setupCalls = 1

\* C8: no load of the file under a name other than __main__ calls
\* run_concurrent_tests, so no call of run_tests is made while another is in
\* progress; a script execution calls run_tests at most once, exactly once
\* when it exits, and exits once that call has returned.
C8_NoNestedRun ==
    /\ [](/\ Len(stack) <= 1
          /\ lpc[2] # "in_call"
          /\ \A f \in Frames : f.caller # 2
          /\ mode = "script" => callNo <= 1 /\ runTestsCalls <= 1
          /\ lpc[1] = "exit" => runTestsCalls = 1)
    /\ (mode = "script" /\ TopIs("L81")) ~> (lpc[1] = "exit")

\* the script has exited after the runner loaded the target
C8_Witness ==
    /\ lpc[1] = "exit" /\ lpc[2] = "loaded"
    /\ runTestsCalls = 1

\* C9: an execution of test_database_operation that started with no
\* 'testuser' visible, on a database no other test writes to, raises no
\* error and fails no assertion, whatever the other workers do; an execution
\* of test_basic_functionality passes whatever the databases hold.
C9_SafeUnderIsolation ==
    \A w \in Workers :
        /\ DbTest(w) /\ runner[1].isolated /\ wclean[w] =>
              /\ wout[w] \in {"none", "ok"}
              /\ wpc[w] = "end" => wout[w] = "ok"
        /\ BasicTest(w) =>
              /\ wout[w] \in {"none", "ok"}
              /\ wpc[w] = "end" => wout[w] = "ok"

\* two isolated executions of test_database_operation overlap: one has
\* passed while the other is between its create and its get
C9_Witness ==
    /\ runner # <<>> /\ runner[1].isolated
    /\ \E v, w \in Workers :
          /\ v # w
          /\ DbTest(v) /\ wclean[v] /\ wpc[v] = "end" /\ wout[v] = "ok"
          /\ DbTest(w) /\ wclean[w] /\ wpc[w] = "L64"

====
